---- MODULE Spec2Model ----
(***************************************************************************)
(* Household load-shifting simulator (src/streamlit_app.py).               *)
(*                                                                         *)
(* Two state machines share the definitions of the helper functions:       *)
(*   Spec    one call of run_shift_scenario on inputs drawn at Init;       *)
(*   SpecUI  the Streamlit script: load_data once, then main() on every    *)
(*           rerun with the widget values the user chose.                  *)
(*                                                                         *)
(* Numbers.  A float is a pair <<n, d>> with d >= 0 in lowest terms:       *)
(* d > 0 is the rational n/d, <<1,0>> is +inf, <<-1,0>> is -inf and        *)
(* <<0,0>> is NaN.  Arithmetic is exact, so a statement the code meets up  *)
(* to floating-point rounding is met exactly here; division by zero gives  *)
(* inf or NaN as numpy's float64 does (no exception).                      *)
(***************************************************************************)
EXTENDS Integers, Sequences, FiniteSets

VARIABLES
    \* ---- one call of run_shift_scenario: arguments
    ci_series,          \* sequence of [ts, val] in the caller's order
    daily_kwh,          \* float
    flexible_share,     \* float
    strategy,           \* string
    renewable_share,    \* None or sequence of [ts, val]
    n_target_hours,     \* integer
    \* ---- the call's locals at its end, and what it returned or raised
    pc,                 \* "start" | "done"
    raised,             \* NoError or the message of the exception raised
    nonflex_load,       \* sequence of floats (None until computed)
    total_flex_energy,  \* float (None until computed)
    target_hours,       \* the labels selected, with their repeats, listed in the
                        \* order of their rows in sort_key (NoTargets: none)
    scenario,           \* the returned dict (NoResult if nothing was returned)
    \* ---- the Streamlit script
    carbon_file,        \* rows of data/processed/df_carbon.parquet
    preds_file,         \* rows of data/predictions/ci_predictions.parquet
    df_carbon,          \* load_data()[0] (None until load_data has run)
    df_preds,           \* load_data()[1]
    available_dates,    \* load_data()[2]
    date_str,           \* the day selected in the sidebar (None before the first run)
    ci_source,          \* "Historical (actual)" | "Model prediction"
    main_exit           \* "not run" | "error shown" | "rendered" | "exception"

engine_vars == <<ci_series, daily_kwh, flexible_share, strategy, renewable_share,
                 n_target_hours, pc, raised, nonflex_load, total_flex_energy,
                 target_hours, scenario>>
ui_vars == <<carbon_file, preds_file, df_carbon, df_preds, available_dates,
             date_str, ci_source, main_exit>>
vars == <<engine_vars, ui_vars>>

\* Python's None, where the value is otherwise a Series, a DataFrame, a float
\* or a dict: it differs from each of them, the empty Series included
None == <<[none |-> TRUE]>>
\* target_hours with no hour selected
NoTargets == <<>>
\* scenario when the call returned nothing (it raised, or was not made)
NoResult == [returned |-> FALSE]
NoError == "no error"

(***************************************************************************)
(* float64 arithmetic, exact                                               *)
(***************************************************************************)
Abs(x) == IF x < 0 THEN -x ELSE x

RECURSIVE GCD(_, _)
GCD(a, b) == IF b = 0 THEN a ELSE GCD(b, a % b)

Norm(n, d) ==
    LET g == GCD(Abs(n), Abs(d))
        s == IF d < 0 THEN -1 ELSE 1
    IN  IF g = 0 THEN <<0, 0>> ELSE <<s * (n \div g), s * (d \div g)>>

FromInt(i) == <<i, 1>>
NaN == <<0, 0>>
IsNaN(a) == a = NaN
IsFinite(a) == a[2] > 0

FAdd(a, b) ==
    IF IsNaN(a) \/ IsNaN(b) THEN NaN
    ELSE IF a[2] = 0 /\ b[2] = 0
    THEN Norm(a[1] + b[1], 0)
    ELSE LET g == GCD(a[2], b[2])
         IN  Norm(a[1] * (b[2] \div g) + b[1] * (a[2] \div g), (a[2] \div g) * b[2])

FNeg(a) == <<-a[1], a[2]>>
FSub(a, b) == FAdd(a, FNeg(b))

\* a and b are in lowest terms, so the cross-reduced product is too
FMul(a, b) ==
    LET x == Norm(a[1], b[2])
        y == Norm(b[1], a[2])
    IN  IF IsNaN(a) \/ IsNaN(b) THEN NaN ELSE <<x[1] * y[1], x[2] * y[2]>>

FDiv(a, b) ==
    IF IsNaN(a) \/ IsNaN(b) THEN NaN
    ELSE IF b[1] < 0 THEN FMul(FNeg(a), <<b[2], -b[1]>>)
    ELSE FMul(a, <<b[2], b[1]>>)

\* a < b as float64 compares: FALSE whenever either side is NaN
FLess(a, b) ==
    /\ ~IsNaN(a) /\ ~IsNaN(b)
    /\ IF a[2] = 0 /\ b[2] = 0 THEN a[1] < b[1] ELSE a[1] * b[2] < b[1] * a[2]

RECURSIVE FSumTo(_, _)
FSumTo(s, k) == IF k = 0 THEN FromInt(0) ELSE FAdd(FSumTo(s, k - 1), s[k])
\* numpy's .sum() of an array: a NaN entry makes the sum NaN
FSum(s) == FSumTo(s, Len(s))

\* pandas' Series.sum(): skipna=True leaves the NaN entries out, so a series
\* of NaN only sums to 0.0
SeriesSum(s) == FSum(SelectSeq(s, LAMBDA x : ~IsNaN(x)))

(***************************************************************************)
(* pandas Series: a sequence of rows [ts, val]; ts is the timestamp in     *)
(* hours since the first day of the timeline (hour h of day d is 24*d+h).  *)
(***************************************************************************)
HoursPerDay == 24

\* the array of the values f[1], ..., f[n], each computed once
Array(f) == f \o <<>>

Positions(s) == 1..Len(s)
Index(s) == Array([i \in Positions(s) |-> s[i].ts])
Values(s) == Array([i \in Positions(s) |-> s[i].val])
Labels(s) == {s[i].ts : i \in Positions(s)}
Rows(s) == {s[i] : i \in Positions(s)}

\* the index is monotonic increasing (equal neighbours allowed)
IsMonotonic(s) == \A i \in 1..(Len(s) - 1) : s[i].ts <= s[i + 1].ts

\* the rows in timestamp order, rows of equal timestamp in their order in s
StableSort(s) ==
    LET rank == Array([i \in Positions(s) |->
                    Cardinality({j \in Positions(s) :
                        s[j].ts < s[i].ts \/ (s[j].ts = s[i].ts /\ j < i)}) + 1])
    IN  Array([k \in Positions(s) |-> s[CHOOSE i \in Positions(s) : rank[i] = k]])

\* every arrangement of t (sorted) that permutes rows of equal timestamp
TieOrders(t) ==
    LET Tied == {i \in Positions(t) :
                    \E j \in Positions(t) : j # i /\ t[j].ts = t[i].ts}
        perms == {f \in [Tied -> Tied] :
                    /\ \A i \in Tied : t[f[i]].ts = t[i].ts
                    /\ \A i \in Tied, j \in Tied : f[i] = f[j] => i = j}
    IN  {Array([i \in Positions(t) |-> IF i \in Tied THEN t[f[i]] ELSE t[i]]) :
            f \in perms}

\* Series.sort_index(), the set of its possible results.  A monotonic index is
\* returned as it is; any other is sorted with kind="quicksort", which is not
\* stable, so rows of equal timestamp come out in an order the numpy build
\* decides (one result when the timestamps are distinct).
sort_index(s) == IF IsMonotonic(s) THEN {s} ELSE TieOrders(StableSort(s))

\* Series.loc[index]: for each label of index in turn, every row of s that
\* carries it (KeyError when a label is missing, see LocRaises)
LocRaises(s, index) == \E k \in DOMAIN index : index[k] \notin Labels(s)
RECURSIVE LocTo(_, _, _)
LocTo(s, index, k) ==
    IF k = 0 THEN <<>>
    ELSE LocTo(s, index, k - 1) \o SelectSeq(s, LAMBDA r : r.ts = index[k])
Loc(s, index) == LocTo(s, index, Len(index))

RECURSIVE KSubsets(_, _)
\* the subsets of S with exactly k elements
KSubsets(S, k) ==
    IF k = 0 THEN {{}}
    ELSE IF Cardinality(S) < k THEN {}
    ELSE LET x == CHOOSE x \in S : TRUE
         IN  KSubsets(S \ {x}, k) \cup {T \cup {x} : T \in KSubsets(S \ {x}, k - 1)}

SortsBeforeAscendingOnly(key, ascending, i, j) ==
    \/ ~IsNaN(key[i]) /\ IsNaN(key[j])
    \/ FLess(key[i], key[j])

\* key[i] sorts strictly before key[j]; NaN sorts last (na_position="last")
SortsBefore(key, ascending, i, j) ==
    \/ ~IsNaN(key[i]) /\ IsNaN(key[j])
    \/ IF ascending THEN FLess(key[i], key[j]) ELSE FLess(key[j], key[i])

\* the possible sets of the first m positions of key in sorted order.
\* sort_values sorts with kind="quicksort", which is not stable: rows of equal
\* key come out in an order the numpy build decides, so every order of the tied
\* rows is an outcome and there is one set per choice among the tied rows.
HeadChoices(key, ascending, m) ==
    LET P == DOMAIN key
        before(i) == Cardinality({j \in P : SortsBefore(key, ascending, j, i)})
        tied(i) == Cardinality({j \in P : ~SortsBefore(key, ascending, j, i)
                                          /\ ~SortsBefore(key, ascending, i, j)})
        sure == {i \in P : before(i) + tied(i) <= m}
        edge == {i \in P : before(i) < m /\ before(i) + tied(i) > m}
    IN  {sure \cup T : T \in KSubsets(edge, m - Cardinality(sure))}

Min(a, b) == IF a < b THEN a ELSE b
Max(a, b) == IF a < b THEN b ELSE a

\* the number of entries of a[:n] when a has len entries (a negative n drops
\* the last -n entries)
SliceLen(len, n) == IF n >= 0 THEN Min(n, len) ELSE Max(len + n, 0)

SortValuesHeadOffByOne(key, ascending, n) ==
    HeadChoices(key, ascending, SliceLen(Len(key), n + 1))

\* Series.sort_values(ascending=...).index[:n], as the sets of the positions
\* in key of the rows it may name
SortValuesHead(key, ascending, n) ==
    HeadChoices(key, ascending, SliceLen(Len(key), n))

(***************************************************************************)
(* Helper functions                                                        *)
(***************************************************************************)
\* the 24 weights, in hundredths
HOUSEHOLD_PROFILE_RAW ==
    <<25, 23, 22, 22, 25,
      35, 55, 65, 60,
      55, 50, 48, 47, 50, 55,
      60, 75, 110, 120, 105,
      70, 55, 40, 30>>

make_household_profile(kwh) ==
    LET raw == Array([h \in 1..Len(HOUSEHOLD_PROFILE_RAW) |->
                        Norm(HOUSEHOLD_PROFILE_RAW[h], 100)])
        scale == FDiv(kwh, FSum(raw))
    IN  Array([h \in 1..Len(raw) |-> FMul(raw[h], scale)])

\* Series.clip(lower=0.0, upper=1.0): NaN compares FALSE both ways and stays NaN
Clip(x) ==
    IF FLess(x, FromInt(0)) THEN FromInt(0)
    ELSE IF FLess(FromInt(1), x) THEN FromInt(1)
    ELSE x

\* df_day: sequence of rows [ts, RENEWABLE, GENERATION]
compute_renewable_share(df_day) ==
    Array([i \in 1..Len(df_day) |->
            [ts |-> df_day[i].ts,
             val |-> Clip(FDiv(df_day[i].RENEWABLE, df_day[i].GENERATION))]])

(***************************************************************************)
(* run_shift_scenario                                                      *)
(***************************************************************************)
ErrLength == "ci_series must contain exactly 24 hourly values"
ErrMissing == "renewable_share is required for 'max_renewable' strategy"
ErrStrategy == "strategy must be 'low_intensity' or 'max_renewable'"
ErrKey == "KeyError: not in index"
ErrAttribute == "AttributeError: 'NoneType' object has no attribute 'loc'"

\* what a call leaves behind: the exception raised (or NoError), the locals
\* computed before it ended, and the dict returned
Outcome(err, nonflex, flex_total, targets, result) ==
    [raised |-> err, nonflex_load |-> nonflex, total_flex_energy |-> flex_total,
     target_hours |-> targets, scenario |-> result]

\* lines 90-97 and 118-122: everything the choice of target hours does not
\* change (computed once for all the outcomes of a call)
Baseline(ci, index, kwh, flex_share) ==
    LET H == DOMAIN index
        base_profile == make_household_profile(kwh)
        baseline_load == Array([h \in H |-> base_profile[h]])
        nonflex == Array([h \in H |->
                            FMul(baseline_load[h], FSub(FromInt(1), flex_share))])
        flex_load == Array([h \in H |-> FMul(baseline_load[h], flex_share)])
        ci_array == Values(ci)
        baseline_emissions == Array([h \in H |-> FMul(baseline_load[h], ci_array[h])])
    IN  [baseline_load |-> baseline_load,
         nonflex_load |-> nonflex,
         total_flex_energy |-> SeriesSum(flex_load),
         ci |-> ci_array,
         baseline_emissions |-> baseline_emissions,
         total_baseline_emissions |-> FSum(baseline_emissions)]

PerHourOverDay(flex_total, targets) == FDiv(flex_total, FromInt(HoursPerDay))

\* line 111: per_hour = total_flex_energy / len(target_hours)
PerHour(flex_total, targets) == FDiv(flex_total, FromInt(Cardinality(targets)))

\* the labels of the rows of sort_key at the positions targets
TargetLabels(key_index, targets) ==
    LET pos == Array([p \in DOMAIN key_index |-> p])
        sel == SelectSeq(pos, LAMBDA p : p \in targets)
    IN  Array([i \in 1..Len(sel) |-> key_index[sel[i]]])

\* lines 109-138, once the target hours are chosen: targets is the set of the
\* positions in sort_key (whose labels are key_index) of the selected rows.
\* shifted_flex[ts] += per_hour goes by label: it adds per_hour to every row
\* of shifted_flex labelled ts, once for each entry ts of target_hours.
Allocate(index, base, key_index, targets) ==
    LET H == DOMAIN index
        per_hour == PerHour(base.total_flex_energy, targets)
        times == Array([h \in H |->
                    Cardinality({p \in targets : key_index[p] = index[h]})])
        shifted_flex == Array([h \in H |-> IF times[h] = 0 THEN FromInt(0)
                                           ELSE FMul(FromInt(times[h]), per_hour)])
        shifted_load == Array([h \in H |-> FAdd(base.nonflex_load[h], shifted_flex[h])])
        shifted_emissions == Array([h \in H |-> FMul(shifted_load[h], base.ci[h])])
        total_shifted_emissions == FSum(shifted_emissions)
        relative_reduction ==
            FDiv(FSub(base.total_baseline_emissions, total_shifted_emissions),
                 base.total_baseline_emissions)
    IN  Outcome(NoError, base.nonflex_load, base.total_flex_energy,
                TargetLabels(key_index, targets),
                [index |-> index,
                 ci |-> base.ci,
                 baseline_load |-> base.baseline_load,
                 shifted_load |-> shifted_load,
                 baseline_emissions |-> base.baseline_emissions,
                 shifted_emissions |-> shifted_emissions,
                 total_baseline_emissions |-> base.total_baseline_emissions,
                 total_shifted_emissions |-> total_shifted_emissions,
                 relative_reduction |-> relative_reduction])

\* lines 99-107: the choice of the target hours
SelectAndAllocate(ci, index, base, strat, share, n) ==
    IF strat = "low_intensity"
    THEN {Allocate(index, base, index, T) :
            T \in SortValuesHead(Values(ci), TRUE, n)}
    ELSE IF strat = "max_renewable"
    THEN {Allocate(index, base, Index(share), T) :
            T \in SortValuesHead(Values(share), FALSE, n)}
    ELSE {Outcome(ErrStrategy, base.nonflex_load, base.total_flex_energy,
                  NoTargets, NoResult)}

PreconditionErrorShareFirst(ci, strat, share_in) ==
    IF strat = "max_renewable" /\ share_in = None THEN ErrMissing
    ELSE IF Len(ci) # HoursPerDay THEN ErrLength
    ELSE NoError

PreconditionErrorNoShareCheck(ci, strat, share_in) ==
    IF Len(ci) # HoursPerDay THEN ErrLength ELSE NoError

\* lines 80-87: the two checks made before anything is computed
PreconditionError(ci, strat, share_in) ==
    IF Len(ci) # HoursPerDay THEN ErrLength
    ELSE IF strat = "max_renewable" /\ share_in = None THEN ErrMissing
    ELSE NoError

\* the call once ci_series is sorted (lines 80-138)
ScenarioOf(ci, kwh, flex_share, strat, share_in, n) ==
    LET index == Index(ci)
        err == PreconditionError(ci, strat, share_in)
    IN  IF err # NoError
        THEN {Outcome(err, None, None, NoTargets, NoResult)}
        \* line 88: .loc of None, were it reached, and .loc of a missing label
        ELSE IF strat = "max_renewable" /\ share_in = None
        THEN {Outcome(ErrAttribute, None, None, NoTargets, NoResult)}
        ELSE IF strat = "max_renewable" /\ LocRaises(share_in, index)
        THEN {Outcome(ErrKey, None, None, NoTargets, NoResult)}
        ELSE LET base == Baseline(ci, index, kwh, flex_share)
             IN  IF strat = "max_renewable"
                 THEN UNION {SelectAndAllocate(ci, index, base, strat, share, n) :
                                share \in sort_index(Loc(share_in, index))}
                 ELSE SelectAndAllocate(ci, index, base, strat, share_in, n)

\* the set of outcomes of one call (one outcome unless sort keys or
\* timestamps are tied)
run_shift_scenario(ci_in, kwh, flex_share, strat, share_in, n) ==
    UNION {ScenarioOf(ci, kwh, flex_share, strat, share_in, n) :
              ci \in sort_index(ci_in)}

(***************************************************************************)
(* Inputs of the checked calls                                             *)
(***************************************************************************)
MaxLevels == 3      \* carbon-intensity series with 1..MaxLevels distinct values

\* first timestamp of the simulated day (day 1 of the timeline)
DayStart == HoursPerDay

\* the value at hour h of a series with m distinct values (m = 1: all zero;
\* m = 24: 24 distinct values in an order scrambled by a)
CIValue(a, m, h) == ((a * h) % HoursPerDay) % m

\* len hourly rows, given in timestamp order or reversed; the rows of the
\* hours in relabel carry the timestamp of the hour before them
MakeCI(len, reversed, a, m, relabel) ==
    [i \in 1..len |->
        LET h == IF reversed THEN len - i ELSE i - 1
        IN  [ts |-> DayStart + (IF h \in relabel THEN h - 1 ELSE h),
             val |-> FromInt(CIValue(a, m, h))]]

\* series of 23, 24 and 25 hours, and series of 24 rows in which one
\* timestamp occurs twice
CISeriesSet ==
    {MakeCI(len, reversed, a, m, {}) :
        len \in (HoursPerDay - 1)..(HoursPerDay + 1), reversed \in BOOLEAN,
        a \in {1, 5}, m \in (1..MaxLevels) \cup {HoursPerDay}}
    \cup
    {MakeCI(HoursPerDay, reversed, 5, m, {1}) :
        reversed \in BOOLEAN, m \in {1, MaxLevels, HoursPerDay}}

\* generation-mix day slices: pattern 1 has 24 distinct shares below 1;
\* pattern 2 has 13 levels of RENEWABLE/GENERATION from 0 to 1.2 (so tied
\* shares and shares above 1) and three hours of zero GENERATION
MixRenewable(pattern, h) ==
    IF pattern = 1 THEN 4 * ((7 * h + 3) % HoursPerDay)
    ELSE IF h = 3 THEN 0
    ELSE 10 * (((7 * h + 3) % HoursPerDay) % 13)
MixGeneration(pattern, h) ==
    IF pattern = 2 /\ h % 8 = 3 THEN 0 ELSE 100

DayMix(pattern, start) ==
    [i \in 1..HoursPerDay |->
        [ts |-> start + i - 1,
         RENEWABLE |-> FromInt(MixRenewable(pattern, i - 1)),
         GENERATION |-> FromInt(MixGeneration(pattern, i - 1))]]

\* no series, an empty series, the shares of the simulated day, the same
\* with a second row for its sixth hour, and the shares of the day after
RenewableShareSet ==
    {None, <<>>,
     compute_renewable_share(DayMix(2, DayStart)),
     compute_renewable_share(DayMix(2, DayStart))
        \o <<[ts |-> DayStart + 5, val |-> FromInt(1)]>>,
     compute_renewable_share(DayMix(1, DayStart + HoursPerDay))}

DailyKwhSet == {FromInt(5), FromInt(14)}
FlexibleShareSet == {FromInt(0), Norm(3, 10), FromInt(1)}
StrategySet == {"low_intensity", "max_renewable", "lowest_price"}
TargetCountSet == {1, 2, HoursPerDay - 1, HoursPerDay}

(***************************************************************************)
(* Spec: one call of run_shift_scenario                                    *)
(***************************************************************************)
UiIdle ==
    /\ carbon_file = None /\ preds_file = None
    /\ df_carbon = None /\ df_preds = None /\ available_dates = {}
    /\ date_str = None /\ ci_source = "Historical (actual)"
    /\ main_exit = "not run"

NoCallYet ==
    /\ pc = "start" /\ raised = NoError
    /\ nonflex_load = None /\ total_flex_energy = None
    /\ target_hours = NoTargets /\ scenario = NoResult

Init ==
    /\ ci_series \in CISeriesSet
    /\ daily_kwh \in DailyKwhSet
    /\ flexible_share \in FlexibleShareSet
    /\ strategy \in StrategySet
    \* only max_renewable reads the series: the other strategies are called
    \* without it and with the shares of the day
    /\ renewable_share \in
          IF strategy = "max_renewable" THEN RenewableShareSet
          ELSE {None, compute_renewable_share(DayMix(2, DayStart))}
    /\ n_target_hours \in TargetCountSet
    /\ NoCallYet
    /\ UiIdle

RunShiftScenario ==
    /\ pc = "start"
    /\ \E o \in run_shift_scenario(ci_series, daily_kwh, flexible_share, strategy,
                                   renewable_share, n_target_hours) :
        /\ raised' = o.raised
        /\ nonflex_load' = o.nonflex_load
        /\ total_flex_energy' = o.total_flex_energy
        /\ target_hours' = o.target_hours
        /\ scenario' = o.scenario
    /\ pc' = "done"
    /\ UNCHANGED <<ci_series, daily_kwh, flexible_share, strategy, renewable_share,
                   n_target_hours, ui_vars>>

Next == RunShiftScenario

Spec == Init /\ [][Next]_vars

(***************************************************************************)
(* The Streamlit script: load_data and main                                *)
(***************************************************************************)
NumDays == 3        \* days of the timeline; day 0 lies before the cut-off
CutoffDay == 1      \* "2020-01-01", the first day load_data keeps

Date(ts) == ts \div HoursPerDay
LastHour == NumDays * HoursPerDay - 1

NaNRow(t) == [ts |-> t, RENEWABLE |-> NaN, GENERATION |-> NaN]

\* DataFrame.asfreq("H") of a frame sorted by a unique index: one row per hour
\* from the first timestamp to the last, the hours without a row filled with NaN
Asfreq(df) ==
    IF df = <<>> THEN <<>>
    ELSE LET first == df[1].ts
             last == df[Len(df)].ts
         IN  Array([k \in 1..(last - first + 1) |->
                      IF first + k - 1 \in Labels(df)
                      THEN df[CHOOSE i \in Positions(df) : df[i].ts = first + k - 1]
                      ELSE NaNRow(first + k - 1)])

OnOrAfterCutoff(r) == r.ts >= CutoffDay * HoursPerDay

\* the labels in S in increasing order
SortedIndex(S) ==
    Array([k \in 1..Cardinality(S) |->
             CHOOSE t \in S : Cardinality({u \in S : u < t}) = k - 1])

\* lines 13-29; each result is a triple (df_carbon, df_preds, available_dates)
load_data(carbon, preds) ==
    {LET carbon2 == SelectSeq(Asfreq(carbon1), OnOrAfterCutoff)
         \* Index.intersection: the labels of both, each once
         common_idx == SortedIndex(Labels(preds1) \cap Labels(carbon2))
         \* a label that preds has twice stays twice
         preds2 == Loc(preds1, common_idx)
     IN  <<Loc(carbon2, common_idx), preds2, {Date(r.ts) : r \in Rows(preds2)}>> :
        carbon1 \in sort_index(carbon), preds1 \in sort_index(preds)}

\* df.loc[date_str:date_str]
DayRows(df, date) == LET OnDate(r) == Date(r.ts) = date IN SelectSeq(df, OnDate)

\* line 61: get_day_slice raises ValueError unless the day has 24 rows
GetDaySliceRaises(df, date) == Len(DayRows(df, date)) # HoursPerDay
get_day_slice(df, date) == DayRows(df, date)

\* df_preds.loc[date_str, column] as a Series
Column(df, date, source) ==
    LET rows == DayRows(df, date)
    IN  Array([i \in 1..Len(rows) |->
                 [ts |-> rows[i].ts,
                  val |-> IF source = "Historical (actual)"
                          THEN rows[i].CI_actual ELSE rows[i].CI_pred]])

(***************************************************************************)
(* The files: the generation mix covers the hours first..last but for the  *)
(* hours in gaps; the predictions cover their own range but for the hours  *)
(* in missing, and the hours in twice have a second row, of other values,  *)
(* at the end of the file.  The generation mix has no timestamp twice       *)
(* (asfreq would raise inside load_data).                                  *)
(***************************************************************************)
CarbonFile(first, last, gaps) ==
    LET hours == Array([k \in 1..(last - first + 1) |-> first + k - 1])
        Present(t) == t \notin gaps
        kept == SelectSeq(hours, Present)
    IN  Array([i \in 1..Len(kept) |->
                 [ts |-> kept[i],
                  RENEWABLE |-> FromInt(MixRenewable(2, kept[i] % HoursPerDay)),
                  GENERATION |-> FromInt(MixGeneration(2, kept[i] % HoursPerDay))]])

PredsRow(t, copy) == [ts |-> t,
                      CI_actual |-> FromInt(50 + ((5 * t + copy) % HoursPerDay)),
                      CI_pred |-> FromInt(40 + ((7 * t + 3 + copy) % HoursPerDay))]

PredsFile(first, last, missing, twice) ==
    LET hours == Array([k \in 1..(last - first + 1) |-> first + k - 1])
        Present(t) == t \notin missing
        kept == SelectSeq(hours, Present)
        rows == Array([i \in 1..Len(kept) |-> PredsRow(kept[i], 0)])
        again == SelectSeq(kept, LAMBDA t : t \in twice)
    IN  rows \o Array([i \in 1..Len(again) |-> PredsRow(again[i], 1)])

CarbonFileSet ==
    {CarbonFile(first, last, gaps) :
        first \in {0, HoursPerDay, HoursPerDay + 6},
        last \in {LastHour - 6, LastHour},
        gaps \in {{}, {HoursPerDay + 12}}}

PredsFileSet ==
    {PredsFile(first, last, missing, twice) :
        first \in {HoursPerDay, HoursPerDay + 3},
        last \in {LastHour - 3, LastHour},
        missing \in {{}, {HoursPerDay + 16}, {LastHour - 11}},
        twice \in {{}, {HoursPerDay + 6}, {LastHour - 16}}}

\* sidebar widgets: the values the model lets the user pick
SourceSet == {"Historical (actual)", "Model prediction"}
UiStrategySet == {"low_intensity", "max_renewable"}
UiDailyKwhSet == {FromInt(14)}
UiFlexibleShareSet == {FromInt(0), Norm(3, 10)}
UiTargetCountSet == {1, 8}

(***************************************************************************)
(* SpecUI                                                                  *)
(***************************************************************************)
InitUI ==
    /\ carbon_file \in CarbonFileSet
    /\ preds_file \in PredsFileSet
    /\ df_carbon = None /\ df_preds = None /\ available_dates = {}
    /\ date_str = None /\ ci_source = "Historical (actual)"
    /\ main_exit = "not run"
    /\ ci_series = None /\ renewable_share = None
    /\ daily_kwh = FromInt(14) /\ flexible_share = Norm(3, 10)
    /\ strategy = "low_intensity" /\ n_target_hours = 4
    /\ NoCallYet

\* the first run of the script: st.cache_data has nothing cached
LoadData ==
    /\ df_carbon = None
    /\ \E loaded \in load_data(carbon_file, preds_file) :
           /\ df_carbon' = loaded[1]
           /\ df_preds' = loaded[2]
           /\ available_dates' = loaded[3]
    /\ UNCHANGED <<carbon_file, preds_file, date_str, ci_source, main_exit,
                   engine_vars>>

MinDate == CHOOSE d \in available_dates : \A e \in available_dates : d <= e
MaxDate == CHOOSE d \in available_dates : \A e \in available_dates : e <= d

\* lines 225-239: the day could not be loaded; st.error and return
MainShowsError ==
    /\ main_exit' = "error shown"
    /\ ci_series' = None /\ renewable_share' = None
    /\ pc' = "start" /\ raised' = NoError
    /\ nonflex_load' = None /\ total_flex_energy' = None
    /\ target_hours' = NoTargets /\ scenario' = NoResult

\* lines 241-326: run_shift_scenario is called outside the try block, so what
\* it raises leaves main; otherwise the metrics and plots are rendered
MainRunsScenario(ci_day, kwh, flex_share, strat, renewable_share_day, n) ==
    /\ ci_series' = ci_day
    /\ renewable_share' = renewable_share_day
    /\ \E o \in run_shift_scenario(ci_day, kwh, flex_share, strat,
                                   renewable_share_day, n) :
        /\ raised' = o.raised
        /\ nonflex_load' = o.nonflex_load
        /\ total_flex_energy' = o.total_flex_energy
        /\ target_hours' = o.target_hours
        /\ scenario' = o.scenario
        /\ main_exit' = IF o.raised = NoError THEN "rendered" ELSE "exception"
    /\ pc' = "done"

\* one run of main() with the data cached and the widgets set to date, source,
\* strat, kwh, flex_share and n
MainWith(date, source, strat, kwh, flex_share, n) ==
    /\ date_str' = date
    /\ ci_source' = source
    /\ strategy' = strat
    /\ daily_kwh' = kwh
    /\ flexible_share' = flex_share
    /\ n_target_hours' = n
    /\ IF GetDaySliceRaises(df_carbon, date) \/ DayRows(df_preds, date) = <<>>
       THEN MainShowsError
       ELSE MainRunsScenario(Column(df_preds, date, source), kwh, flex_share, strat,
                             compute_renewable_share(get_day_slice(df_carbon, date)),
                             n)
    /\ UNCHANGED <<carbon_file, preds_file, df_carbon, df_preds, available_dates>>

Main ==
    /\ df_carbon # None
    /\ available_dates # {}
    /\ main_exit = "not run"
    /\ \E date \in MinDate..MaxDate, source \in SourceSet, strat \in UiStrategySet,
          kwh \in UiDailyKwhSet, flex_share \in UiFlexibleShareSet,
          n \in UiTargetCountSet :
        MainWith(date, source, strat, kwh, flex_share, n)

\* a widget is touched: Streamlit drops everything the last run computed (the
\* cached load_data result is kept) and the script is ready to run again
Rerun ==
    /\ main_exit # "not run"
    /\ main_exit' = "not run"
    /\ date_str' = None /\ ci_source' = "Historical (actual)"
    /\ ci_series' = None /\ renewable_share' = None
    /\ daily_kwh' = FromInt(14) /\ flexible_share' = Norm(3, 10)
    /\ strategy' = "low_intensity" /\ n_target_hours' = 4
    /\ pc' = "start" /\ raised' = NoError
    /\ nonflex_load' = None /\ total_flex_energy' = None
    /\ target_hours' = NoTargets /\ scenario' = NoResult
    /\ UNCHANGED <<carbon_file, preds_file, df_carbon, df_preds, available_dates>>

NextUI == LoadData \/ Main \/ Rerun

SpecUI == InitUI /\ [][NextUI]_vars

(***************************************************************************)
(* Properties of run_shift_scenario (checked under Spec)                   *)
(***************************************************************************)
Returned == pc = "done" /\ raised = NoError

\* the hours named by target_hours
TargetSet == {target_hours[i] : i \in DOMAIN target_hours}

\* no timestamp occurs twice in s
Distinct(s) == Cardinality(Labels(s)) = Len(s)

\* the series the call reads are hourly series: one row per timestamp
HourlyInputs ==
    /\ Distinct(ci_series)
    /\ strategy = "max_renewable" => Distinct(renewable_share)

\* C1 (energy conservation), as stated: a call that returns has the 24
\* shifted loads sum to the sum of the 24 baseline loads, which is daily_kwh.
C1_EnergyConservation ==
    Returned =>
        /\ FSum(scenario.shifted_load) = FSum(scenario.baseline_load)
        /\ FSum(scenario.baseline_load) = daily_kwh

\* C1 amended: a call that returns on a carbon-intensity series of 24 distinct
\* timestamps has the 24 shifted loads sum to the sum of the 24 baseline
\* loads, which is daily_kwh.
C1_EnergyConservationDistinct ==
    (Returned /\ Distinct(ci_series)) =>
        /\ FSum(scenario.shifted_load) = FSum(scenario.baseline_load)
        /\ FSum(scenario.baseline_load) = daily_kwh

C1_Witness ==
    /\ Returned /\ Distinct(ci_series)
    /\ flexible_share = Norm(3, 10)
    /\ n_target_hours = 2
    /\ scenario.shifted_load # scenario.baseline_load
    /\ FSum(scenario.shifted_load) = FromInt(14)

\* the rows of the sort key: the carbon intensities, or the renewable shares
\* of the timestamps of ci_series
KeyRows ==
    IF strategy = "low_intensity" THEN Rows(ci_series)
    ELSE {r \in Rows(renewable_share) : r.ts \in Labels(ci_series)}

\* the target hours are n_target_hours hours of the day and no hour left out
\* sorts strictly before a chosen hour
BestHoursChosen ==
    /\ Len(target_hours) = n_target_hours
    /\ Cardinality(TargetSet) = n_target_hours
    /\ TargetSet \subseteq Labels(ci_series)
    /\ \A r \in KeyRows : r.ts \in TargetSet =>
          \A q \in KeyRows : q.ts \notin TargetSet =>
              IF strategy = "low_intensity"
              THEN ~FLess(q.val, r.val) ELSE ~FLess(r.val, q.val)

\* C2 (strategy correctness), as stated: the target hours are n_target_hours
\* hours; with low_intensity no hour left out has a strictly smaller carbon
\* intensity than a chosen hour, with max_renewable no hour left out has a
\* strictly larger renewable share than a chosen hour.
C2_StrategyCorrectness == Returned => BestHoursChosen

\* C2 amended: the same, for calls whose series have one row per timestamp.
C2_StrategyCorrectnessDistinct == (Returned /\ HourlyInputs) => BestHoursChosen

C2_Witness ==
    /\ Returned /\ HourlyInputs
    /\ strategy = "max_renewable"
    /\ n_target_hours = 2
    /\ \E r \in Rows(renewable_share), q \in Rows(renewable_share) :
          /\ r.ts \in TargetSet /\ q.ts \notin TargetSet
          /\ FLess(q.val, r.val)

\* exactly n_target_hours of the 24 hours carry nonflex_load +
\* total_flex_energy / n_target_hours, and every other hour carries
\* nonflex_load = baseline_load * (1 - flexible_share)
FlexOnTargetsOnly ==
    /\ Cardinality(TargetSet) = n_target_hours
    /\ Cardinality({h \in 1..HoursPerDay : scenario.index[h] \in TargetSet})
          = n_target_hours
    /\ \A h \in 1..HoursPerDay :
          /\ nonflex_load[h] =
                FMul(scenario.baseline_load[h], FSub(FromInt(1), flexible_share))
          /\ scenario.shifted_load[h] =
                IF scenario.index[h] \in TargetSet
                THEN FAdd(nonflex_load[h],
                          FDiv(total_flex_energy, FromInt(n_target_hours)))
                ELSE nonflex_load[h]

\* C3 (selection count), as stated: exactly n_target_hours distinct hours
\* carry nonflex_load + total_flex_energy / n_target_hours, every other hour
\* carries nonflex_load = baseline_load * (1 - flexible_share).
C3_SelectionCount == Returned => FlexOnTargetsOnly

\* C3 amended: the same, for calls whose series have one row per timestamp.
C3_SelectionCountDistinct == (Returned /\ HourlyInputs) => FlexOnTargetsOnly

C3_Witness ==
    /\ Returned /\ HourlyInputs
    /\ n_target_hours = 2
    /\ flexible_share = FromInt(1)
    /\ \E h \in 1..HoursPerDay : scenario.shifted_load[h] = FromInt(0)
    /\ \E h \in 1..HoursPerDay : scenario.shifted_load[h] = FDiv(daily_kwh, FromInt(2))

\* the head of a stable sort: ties broken by timestamp order
StableHead(rows, ascending, n) ==
    {r.ts : r \in {r \in Rows(rows) :
        Cardinality({q \in Rows(rows) :
            \/ ~IsNaN(q.val) /\ IsNaN(r.val)
            \/ IF ascending THEN FLess(q.val, r.val) ELSE FLess(r.val, q.val)
            \/ /\ ~FLess(q.val, r.val) /\ ~FLess(r.val, q.val)
               /\ IsNaN(q.val) = IsNaN(r.val)
               /\ q.ts < r.ts}) < n}}

\* C4 (tie-break determinism): on series of one row per timestamp, among hours
\* of equal sort key the earliest timestamps are selected, so the inputs
\* determine the target hours.
C4_StableTieBreak ==
    (Returned /\ HourlyInputs) =>
        TargetSet = IF strategy = "low_intensity"
                    THEN StableHead(ci_series, TRUE, n_target_hours)
                    ELSE StableHead(renewable_share, FALSE, n_target_hours)

\* C5 (wrong-length rejection): a carbon-intensity series of other than 24
\* values ends in the length error, whatever the other arguments, and nothing
\* is returned.
C5_WrongLengthRejected ==
    (pc = "done" /\ Len(ci_series) # HoursPerDay) =>
        raised = ErrLength /\ scenario = NoResult

C5_Witness ==
    /\ pc = "done"
    /\ Len(ci_series) = HoursPerDay + 1
    /\ strategy = "max_renewable"
    /\ renewable_share = None
    /\ raised = ErrLength

\* C6 (degenerate baseline): when the total baseline emissions are zero the
\* call raises, or returns a relative_reduction that is a defined number.
C6_DegenerateBaselineSignalled ==
    (Returned /\ scenario.total_baseline_emissions = FromInt(0)) =>
        IsFinite(scenario.relative_reduction)

\* C8 (missing renewable input): max_renewable without a renewable-share
\* series ends in the missing-input error before any load is split or any
\* hour selected, and nothing is returned.
C8_MissingRenewableRejected ==
    (pc = "done" /\ Len(ci_series) = HoursPerDay
        /\ strategy = "max_renewable" /\ renewable_share = None) =>
        /\ raised = ErrMissing
        /\ scenario = NoResult
        /\ nonflex_load = None /\ total_flex_energy = None
        /\ target_hours = NoTargets

C8_Witness ==
    /\ pc = "done"
    /\ Len(ci_series) = HoursPerDay
    /\ strategy = "max_renewable"
    /\ renewable_share = None
    /\ raised = ErrMissing

(***************************************************************************)
(* Properties of the Streamlit script (checked under SpecUI)               *)
(***************************************************************************)
\* get_day_slice returned in the last run of main
DayLoaded == main_exit \in {"rendered", "exception"}

\* C7 (renewable-share range): for an hour with RENEWABLE >= 0 and
\* GENERATION >= 0 the share computed is a number in [0,1], and it is
\* min(1, RENEWABLE/GENERATION) when GENERATION > 0.
C7_RenewableShareInRange ==
    DayLoaded =>
        \A i \in 1..HoursPerDay :
            LET row == DayRows(df_carbon, date_str)[i]
                share == renewable_share[i].val
                ratio == FDiv(row.RENEWABLE, row.GENERATION)
            IN  (/\ IsFinite(row.RENEWABLE) /\ ~FLess(row.RENEWABLE, FromInt(0))
                 /\ IsFinite(row.GENERATION) /\ ~FLess(row.GENERATION, FromInt(0)))
                =>
                /\ IsFinite(share)
                /\ ~FLess(share, FromInt(0)) /\ ~FLess(FromInt(1), share)
                /\ FLess(FromInt(0), row.GENERATION) =>
                      share = IF FLess(FromInt(1), ratio) THEN FromInt(1) ELSE ratio

\* C9 (containment): whatever get_day_slice, compute_renewable_share or
\* run_shift_scenario raises is caught in main, which shows the error and
\* returns; no exception leaves main.
C9_ErrorsContained ==
    /\ main_exit # "exception"
    /\ raised # NoError => main_exit = "error shown"

\* C10 (validated hand-off): whenever get_day_slice returned, the series handed
\* to run_shift_scenario has 24 entries, the renewable shares are on the same
\* 24 timestamps, and neither the length check nor the re-indexing fails.
C10_ValidatedHandOff ==
    DayLoaded =>
        /\ Len(ci_series) = HoursPerDay
        /\ Labels(renewable_share) = Labels(ci_series)
        /\ raised \notin {ErrLength, ErrKey}

====
